---- MODULE Spec2Model ----
(***************************************************************************)
(* Vinylzz: asynchronous price-estimation pipeline.                        *)
(*   lib/estimate.js  estimateFromMetadata and its Discogs/OpenAI helpers  *)
(*   queue.js         enqueue(name, data) with attempts 5, backoff 2000    *)
(*   worker.js        the Worker handler, concurrency 3                    *)
(*   server.js        POST /api/records and POST /api/records/:id/estimate *)
(* Prices are integer cents.  A nullable JavaScript value is a sequence of *)
(* length 0 (null / undefined) or 1 (the value).                           *)
(***************************************************************************)
EXTENDS Integers, Sequences, FiniteSets, TLC

VARIABLES
  records,          \* table records: id -> nullable metadata row
  price_estimates,  \* table price_estimates: the rows, in insertion order
  jobs,             \* the queue 'vinyl-jobs': job id -> job
  slots,            \* the Worker's concurrent executors and their handler state
  crashes,          \* worker process crashes so far
  hist,             \* per job: what its executions did so far
  estIn,            \* the arguments of an estimateFromMetadata call
  estRes,           \* what that call did
  http              \* the last answer of POST /api/records/:id/estimate

vars ==
  <<records, price_estimates, jobs, slots, crashes, hist, estIn, estRes, http>>

queueVars == <<records, jobs, slots, crashes, hist>>

----------------------------------------------------------------------------
(* bounds of the model *)

MaxJobs == 1

MaxCrashes == 1

\* lowest prices 0..MaxPrice cents are tried, besides 10.00
MaxPrice == 5

\* the jobs that wait for the Worker when the slot bound is examined
PoolJobs == 4

----------------------------------------------------------------------------
(* configuration *)

\* attempts: 4 in place of 5
attemptsOneLess == 5 - 1

\* queue.js: attempts: 5
attempts == 5

\* a backoff that does not grow
backoffFixed == [type |-> "fixed", delay |-> 2000]

\* queue.js: backoff: { type: 'exponential', delay: 2000 }
backoff == [type |-> "exponential", delay |-> 2000]

\* concurrency: 4 in place of 3
concurrencyOneMore == 3 + 1

\* worker.js: concurrency: 3
concurrency == 3

----------------------------------------------------------------------------
(* JavaScript values *)

null == <<>>

Some(v) == <<v>>

\* truthiness of a nullable string: null, undefined and "" are falsy
TruthyStr(v) == v /= null /\ v[1] /= ""

\* truthiness of a nullable number: null, undefined and 0 are falsy
TruthyNum(v) == v /= null /\ v[1] /= 0

\* a || b on nullable strings
OrStr(a, b) == IF TruthyStr(a) THEN a ELSE b

\* outcome of an awaited call: it returned a value or it threw
Returned(v) == [threw |-> FALSE, value |-> v]

Thrown(msg) == [threw |-> TRUE, error |-> msg]

----------------------------------------------------------------------------
(* lib/estimate.js *)

\* a normalizer that returns what the model answered and nothing else
aiNormalizeAnswerOnly(meta, key, res) ==
  IF ~key THEN Returned(meta)
  ELSE IF res.kind = "reject" THEN Thrown("fetch failed")
  ELSE IF res.kind = "status" THEN Returned(meta)
  ELSE IF res.kind = "badjson" THEN Thrown("invalid json")
  ELSE IF res.kind = "badcontent" THEN Returned(meta)
  ELSE Returned([artist  |-> res.artist,
                 title   |-> res.title,
                 label   |-> null,
                 catno   |-> null,
                 barcode |-> null])

\* aiNormalize(meta): key is process.env.OPENAI_API_KEY being set, res the
\* outcome of the chat-completions request:
\*   "reject"      fetch rejects (network error)
\*   "status"      a response with res.ok false
\*   "badjson"     res.json() rejects (body unreadable or not JSON)
\*   "badcontent"  JSON.parse(content) or the property reads throw
\*   "parsed"      content parsed, with parsed.artist and parsed.title
aiNormalize(meta, key, res) ==
  IF ~key THEN Returned(meta)
  ELSE IF res.kind = "reject" THEN Thrown("fetch failed")
  ELSE IF res.kind = "status" THEN Returned(meta)
  ELSE IF res.kind = "badjson" THEN Thrown("invalid json")
  ELSE IF res.kind = "badcontent" THEN Returned(meta)
  ELSE Returned([artist  |-> OrStr(res.artist, meta.artist),
                 title   |-> OrStr(res.title, meta.title),
                 label   |-> meta.label,
                 catno   |-> meta.catno,
                 barcode |-> meta.barcode])

\* whether aiNormalize sends its request
aiNormalizeCalls(key) == key

\* the keys of a search that takes the label for a search field
SearchParamsWithLabel(m) ==
  {k \in {"artist", "title", "label", "catno", "barcode"} : TruthyStr(m[k])}

\* the URLSearchParams keys discogsSearch sets
SearchParams(m) ==
  {k \in {"artist", "title", "catno", "barcode"} : TruthyStr(m[k])}

\* whether discogsSearch sends its request
discogsSearchCalls(m) == SearchParams(m) /= {}

\* a search that answers a failed request with no results
discogsSearchSwallows(m, res) ==
  IF SearchParams(m) = {} THEN Returned([results |-> <<>>, items |-> null])
  ELSE IF res.kind \in {"reject", "status", "badjson"}
    THEN Returned([results |-> <<>>, items |-> null])
  ELSE Returned([results |-> res.results, items |-> res.items])

\* discogsSearch(clean): res is the outcome of the search request:
\*   "reject" fetch rejects, "status" res.ok false, "badjson" res.json()
\*   rejects, "ok" a body with results and pagination.items
discogsSearch(m, res) ==
  IF SearchParams(m) = {} THEN Returned([results |-> <<>>, items |-> null])
  ELSE IF res.kind = "reject" THEN Thrown("fetch failed")
  ELSE IF res.kind = "status" THEN Thrown("Discogs search")
  ELSE IF res.kind = "badjson" THEN Thrown("invalid json")
  ELSE Returned([results |-> res.results, items |-> res.items])

\* whether discogsReleaseStats sends its request
discogsReleaseStatsCalls(releaseId) == TruthyNum(releaseId)

\* discogsReleaseStats(releaseId): res is the outcome of the stats request
discogsReleaseStats(releaseId, res) ==
  IF ~TruthyNum(releaseId) THEN Returned(null)
  ELSE IF res.kind = "reject" THEN Thrown("fetch failed")
  ELSE IF res.kind = "status" THEN Returned(null)
  ELSE IF res.kind = "badjson" THEN Thrown("invalid json")
  ELSE Returned(Some([lowest_price |-> res.lowest_price,
                      num_for_sale |-> res.num_for_sale]))

\* the first entry whatever its type
PickFirstEntry(results) ==
  IF Len(results) > 0 THEN Some(results[1]) ELSE null

\* search.results?.find(r => r.type === 'release') || search.results?.[0]
PickFirst(results) ==
  LET rel == {i \in 1..Len(results) : results[i].type = "release"}
  IN IF rel /= {}
       THEN Some(results[CHOOSE i \in rel : \A k \in rel : i <= k])
     ELSE IF Len(results) > 0 THEN Some(results[1])
     ELSE null

\* Math.round(lowest * 1.3 * 100) / 100 on a price of `cents` cents.  The
\* exact product is 13 * cents tenths of a cent and Math.round rounds a
\* half up; when the exact product ends in .5 the IEEE-754 double product
\* may lie just below the half and round down, which fpBelow selects.
Uplift(cents, fpBelow) ==
  LET tenths == 13 * cents
  IN IF tenths % 10 = 5 /\ fpBelow THEN tenths \div 10
     ELSE (tenths + 5) \div 10

\* lines 104-109: lowest, count and estimated from the stats
Lowest(stats) == IF stats = null THEN null ELSE stats[1].lowest_price

Count(stats) ==
  IF stats = null \/ stats[1].num_for_sale = null THEN 0
  ELSE stats[1].num_for_sale[1]

\* the depth test before the null test: null * 1.3 is 0
EstimatedNoNullTest(lowest, count, fpBelow) ==
  IF count > 5
    THEN Some(Uplift(IF lowest = null THEN 0 ELSE lowest[1], fpBelow))
    ELSE lowest

\* the uplift whatever the number of listings
EstimatedNoDepthTest(lowest, count, fpBelow) ==
  IF lowest /= null THEN Some(Uplift(lowest[1], fpBelow)) ELSE null

Estimated(lowest, count, fpBelow) ==
  IF lowest /= null
    THEN (IF count > 5 THEN Some(Uplift(lowest[1], fpBelow)) ELSE lowest)
    ELSE null

\* search_count from the length of the list instead of pagination.items
NoResultsCountsList(clean, search) ==
  [source          |-> "discogs",
   lowest_price    |-> null,
   median_price    |-> null,
   estimated_price |-> null,
   extras          |-> [note         |-> "no results",
                        query        |-> clean,
                        search_count |-> Len(search.results)]]

\* lines 91-97: the result when no candidate was found
NoResults(clean, search) ==
  [source          |-> "discogs",
   lowest_price    |-> null,
   median_price    |-> null,
   estimated_price |-> null,
   extras          |-> [note         |-> "no results",
                        query        |-> clean,
                        search_count |-> IF TruthyNum(search.items)
                                           THEN search.items[1] ELSE 0]]

\* lines 111-127: the result for the selected candidate; extras copies
\* country, year, label, catno and community of the candidate like its title
Result(first, stats, fpBelow) ==
  [source          |-> "discogs",
   lowest_price    |-> Lowest(stats),
   median_price    |-> null,
   estimated_price |-> Estimated(Lowest(stats), Count(stats), fpBelow),
   extras          |-> [release_id   |-> first.id,
                        title        |-> first.title,
                        num_for_sale |-> IF stats = null THEN null
                                         ELSE stats[1].num_for_sale]]

\* a call to the pricing service that is followed by the pause
CallThenSleep(calls, step) ==
  (IF calls THEN <<step>> ELSE <<>>) \o <<"sleep">>

\* lines 85-86 and 101-102: await sleep(150), then the awaited call to
\* the pricing service, which sends its request or not
SleepThenCall(calls, step) ==
  <<"sleep">> \o (IF calls THEN <<step>> ELSE <<>>)

\* estimateFromMetadata(meta) under the environment env = [key, norm,
\* search, stats, fpBelow].  The value is what the call did: whether it
\* threw, the result it returned, the metadata it handed to discogsSearch
\* (clean), the release id it handed to discogsReleaseStats (asked) and the
\* external steps it took, in order (trace).
estimateFromMetadata(meta, env) ==
  LET n == aiNormalize(meta, env.key, env.norm)
      t1 == IF aiNormalizeCalls(env.key) THEN <<"normalize">> ELSE <<>>
  IN IF n.threw
       THEN [threw |-> TRUE, error |-> "normalize", clean |-> null,
             asked |-> null, trace |-> t1]
     ELSE
  LET clean == n.value
      s == discogsSearch(clean, env.search)
      t2 == t1 \o SleepThenCall(discogsSearchCalls(clean), "search")
  IN IF s.threw
       THEN [threw |-> TRUE, error |-> "search", clean |-> Some(clean),
             asked |-> null, trace |-> t2]
     ELSE
  LET first == PickFirst(s.value.results)
  IN IF first = null
       THEN [threw |-> FALSE, out |-> NoResults(clean, s.value),
             clean |-> Some(clean), asked |-> null, trace |-> t2]
     ELSE
  LET st == discogsReleaseStats(first[1].id, env.stats)
      t3 == t2 \o SleepThenCall(discogsReleaseStatsCalls(first[1].id),
                                "stats")
  IN IF st.threw
       THEN [threw |-> TRUE, error |-> "stats", clean |-> Some(clean),
             asked |-> Some(first[1].id), trace |-> t3]
     ELSE [threw |-> FALSE, out |-> Result(first[1], st.value, env.fpBelow),
           clean |-> Some(clean), asked |-> Some(first[1].id), trace |-> t3]

----------------------------------------------------------------------------
(* the values the environment supplies *)

Meta(a, t, l, c, b) ==
  [artist |-> a, title |-> t, label |-> l, catno |-> c, barcode |-> b]

NormResponse(k, a, t) == [kind |-> k, artist |-> a, title |-> t]

SearchResponse(k, r, n) == [kind |-> k, results |-> r, items |-> n]

StatsResponse(k, p, n) == [kind |-> k, lowest_price |-> p, num_for_sale |-> n]

Candidate(i, t, n) == [id |-> i, type |-> t, title |-> n]

Env(k, n, s, st, fp) ==
  [key |-> k, norm |-> n, search |-> s, stats |-> st, fpBelow |-> fp]

----------------------------------------------------------------------------
(* the queue (queue.js) and the Worker (worker.js) *)

JobIds == 1..MaxJobs

\* the model follows one subject record, the first row of table records
RecordIds == {1}

Slots == 1..concurrency

\* the jobs producers enqueue: estimates of a record, which need not
\* exist, and jobs of a kind the Worker does not know
ProducerJobs ==
  {<<"estimate", r>> : r \in RecordIds} \cup {<<"other", 1>>}

\* the metadata rows the records of this model hold
RecordMetas == {Meta(Some("A"), Some("T"), null, null, null)}

\* what the external services answer while jobs run: every call succeeds,
\* or the normalizer request, the search or the stats request fails
WorkerEnvs ==
  {Env(TRUE, NormResponse(n, null, null),
       SearchResponse(s, <<Candidate(Some(42), "release", "X")>>, null),
       StatsResponse(st, Some(1000), Some(8)), FALSE) :
     <<n, s, st>> \in {<<"status", "ok", "ok">>, <<"reject", "ok", "ok">>,
                       <<"status", "status", "ok">>,
                       <<"status", "reject", "ok">>,
                       <<"status", "ok", "reject">>}}

Idle == [job |-> 0, pc |-> "idle", meta |-> null, out |-> null]

\* waited: the milliseconds the job has spent in pending-retry since its
\* last failure
NoHistory == [failures |-> 0, retries |-> 0, inserts |-> 0, waited |-> 0]

\* the executors that run job j
Holders(j) == {s \in Slots : slots[s].job = j}

FreeSlots == {s \in Slots : slots[s].job = 0}

Terminal == {"completed", "exhausted"}

\* queue.js enqueue(name, data): q.add with attempts 5; the queue assigns
\* the next job id and the job waits for a worker
enqueue(name, data) ==
  /\ Len(jobs) < MaxJobs
  /\ jobs' = Append(jobs, [name |-> name, data |-> data, state |-> "pending",
                           attempt |-> 0, maxAttempts |-> attempts,
                           delay |-> 0])
  /\ hist' = Append(hist, NoHistory)

\* the queue's ack(jobId): the job is completed
ack(j) == jobs' = [jobs EXCEPT ![j].state = "completed"]

\* the delay before the retry that follows the n-th failed attempt: the
\* base delay, doubling per attempt when the backoff is exponential
backoffDelay(n) ==
  IF backoff.type = "exponential" THEN backoff.delay * 2^(n - 1)
  ELSE backoff.delay

\* the queue's fail(jobId): one more attempt used; retry while attempts
\* remain, at now + backoffDelay(attempt), exhausted otherwise.  The job's
\* delay is its nextEligibleTime - now, in milliseconds.
fail(j) ==
  LET n == jobs[j].attempt + 1
  IN jobs' = [jobs EXCEPT ![j].attempt = n,
                          ![j].state = IF n < jobs[j].maxAttempts
                                         THEN "pending-retry"
                                         ELSE "exhausted",
                          ![j].delay = IF n < jobs[j].maxAttempts
                                         THEN backoffDelay(n) ELSE 0]

\* a handler whose promise rejects while its work goes on: the job is
\* failed and the executor still runs it
HandlerThrowsStillRunning(s) ==
  LET j == slots[s].job
  IN /\ fail(j)
     /\ UNCHANGED slots
     /\ hist' = [hist EXCEPT
                   ![j].failures = @ + 1,
                   ![j].retries = IF jobs'[j].state = "pending-retry"
                                    THEN @ + 1 ELSE @,
                   ![j].waited = 0]

\* the handler of executor s throws: the Worker fails the job
HandlerThrows(s) ==
  LET j == slots[s].job
  IN /\ fail(j)
     /\ slots' = [slots EXCEPT ![s] = Idle]
     /\ hist' = [hist EXCEPT
                   ![j].failures = @ + 1,
                   ![j].retries = IF jobs'[j].state = "pending-retry"
                                    THEN @ + 1 ELSE @,
                   ![j].waited = 0]

\* the handler of executor s returns: the Worker completes the job
HandlerReturns(s) ==
  /\ ack(slots[s].job)
  /\ slots' = [slots EXCEPT ![s] = Idle]
  /\ UNCHANGED hist

\* POST /api/records: a row with the next serial id
CreateRecord(m) ==
  /\ Len(records) + 1 \in RecordIds
  /\ records' = Append(records, m)
  /\ UNCHANGED <<price_estimates, jobs, slots, crashes, hist, estIn, estRes, http>>

\* the value of a string of the digits 0 and 1
RECURSIVE Decimal(_)
Decimal(d) ==
  IF d = <<>> THEN 0
  ELSE 10 * Decimal(SubSeq(d, 1, Len(d) - 1)) + (IF d[Len(d)] = "1" THEN 1 ELSE 0)

\* Number(req.params.id) of a non-empty string of the characters - 0 1 a:
\* an optional sign and digits give their value, anything else NaN (null)
Number(p) ==
  LET body == IF p[1] = "-" THEN Tail(p) ELSE p
  IN IF body = <<>> \/ \E i \in DOMAIN body : body[i] \notin {"0", "1"}
       THEN null
     ELSE Some(IF p[1] = "-" THEN 0 - Decimal(body) ELSE Decimal(body))

\* res.status(status).json(...): error is the call that threw, if any
Answer(recordId, status, error, jobId) ==
  Some([id |-> recordId, status |-> status, error |-> error, jobId |-> jobId])

\* an endpoint that enqueues without looking the record up
PostEstimateNoLookup(p, dbOk, qOk) ==
  LET recordId == Number(p)
  IN /\ IF recordId = null \/ recordId[1] <= 0
          THEN /\ http' = Answer(recordId, 400, "none", null)
               /\ UNCHANGED <<jobs, hist>>
        ELSE IF ~qOk
          THEN /\ http' = Answer(recordId, 500, "queue", null)
               /\ UNCHANGED <<jobs, hist>>
        ELSE /\ enqueue("estimate", recordId[1])
             /\ http' = Answer(recordId, 200, "none", Some(Len(jobs) + 1))
     /\ UNCHANGED <<records, price_estimates, slots, crashes, estIn, estRes>>

\* POST /api/records/:id/estimate with the id p; dbOk and qOk say whether
\* the select and the enqueue go through or throw
PostEstimate(p, dbOk, qOk) ==
  LET recordId == Number(p)
  IN /\ IF recordId = null \/ recordId[1] <= 0
          THEN /\ http' = Answer(recordId, 400, "none", null)
               /\ UNCHANGED <<jobs, hist>>
        ELSE IF ~dbOk
          THEN /\ http' = Answer(recordId, 500, "db", null)
               /\ UNCHANGED <<jobs, hist>>
        ELSE IF recordId[1] \notin DOMAIN records
          THEN /\ http' = Answer(recordId, 404, "none", null)
               /\ UNCHANGED <<jobs, hist>>
        ELSE IF ~qOk
          THEN /\ http' = Answer(recordId, 500, "queue", null)
               /\ UNCHANGED <<jobs, hist>>
        ELSE /\ enqueue("estimate", recordId[1])
             /\ http' = Answer(recordId, 200, "none", Some(Len(jobs) + 1))
     /\ UNCHANGED <<records, price_estimates, slots, crashes, estIn, estRes>>

\* any producer calling enqueue(name, data), the endpoint among them
Produce(name, recordId) ==
  /\ enqueue(name, recordId)
  /\ UNCHANGED <<records, price_estimates, slots, crashes, estIn, estRes, http>>

\* the queue hands pending job j to a free executor of the Worker
Dispatch(j) ==
  /\ j \in DOMAIN jobs
  /\ jobs[j].state = "pending"
  /\ FreeSlots /= {}
  /\ LET s == CHOOSE f \in FreeSlots : \A g \in FreeSlots : f <= g
     IN slots' = [slots EXCEPT ![s] = [job |-> j, pc |-> "start",
                                       meta |-> null, out |-> null]]
  /\ jobs' = [jobs EXCEPT ![j].state = "active"]
  /\ UNCHANGED <<records, price_estimates, crashes, hist, estIn, estRes, http>>

\* a handler that rejects the kinds it does not know
HandleOtherThrows(s) ==
  /\ slots[s].pc = "start"
  /\ jobs[slots[s].job].name /= "estimate"
  /\ HandlerThrows(s)
  /\ UNCHANGED <<records, price_estimates, crashes, estIn, estRes, http>>

\* worker.js 56-57: a job of another kind returns { ok: true }
HandleOther(s) ==
  /\ slots[s].pc = "start"
  /\ jobs[slots[s].job].name /= "estimate"
  /\ HandlerReturns(s)
  /\ UNCHANGED <<records, price_estimates, crashes, estIn, estRes, http>>

\* a handler that awaits the row instead of throwing when there is none
LoadRecordAwaitsRow(s, dbOk) ==
  /\ slots[s].pc = "start"
  /\ jobs[slots[s].job].name = "estimate"
  /\ dbOk
  /\ jobs[slots[s].job].data \in DOMAIN records
  /\ slots' = [slots EXCEPT
                 ![s].pc = "estimate",
                 ![s].meta = Some(records[jobs[slots[s].job].data])]
  /\ UNCHANGED <<records, price_estimates, jobs, crashes, hist, estIn, estRes, http>>

\* a handler that goes on without the row when the query finds none
LoadRecordIgnoresMissing(s, dbOk) ==
  /\ slots[s].pc = "start"
  /\ jobs[slots[s].job].name = "estimate"
  /\ IF dbOk
       THEN /\ slots' = [slots EXCEPT
                          ![s].pc = "estimate",
                          ![s].meta =
                            IF jobs[slots[s].job].data \in DOMAIN records
                              THEN Some(records[jobs[slots[s].job].data])
                              ELSE Some(Meta(null, null, null, null, null))]
            /\ UNCHANGED <<jobs, hist>>
       ELSE HandlerThrows(s)
  /\ UNCHANGED <<records, price_estimates, crashes, estIn, estRes, http>>

\* worker.js 25-40: select the record; throw when the query fails or
\* finds no row
LoadRecord(s, dbOk) ==
  /\ slots[s].pc = "start"
  /\ jobs[slots[s].job].name = "estimate"
  /\ IF dbOk /\ jobs[slots[s].job].data \in DOMAIN records
       THEN /\ slots' = [slots EXCEPT
                          ![s].pc = "estimate",
                          ![s].meta = Some(records[jobs[slots[s].job].data])]
            /\ UNCHANGED <<jobs, hist>>
       ELSE HandlerThrows(s)
  /\ UNCHANGED <<records, price_estimates, crashes, estIn, estRes, http>>

\* worker.js 43: const out = await estimateFromMetadata(meta), the
\* services answering as env says
CallEstimator(s, env) ==
  /\ slots[s].pc = "estimate"
  /\ LET r == estimateFromMetadata(slots[s].meta[1], env)
     IN IF r.threw
          THEN HandlerThrows(s)
          ELSE /\ slots' = [slots EXCEPT ![s].pc = "insert",
                                          ![s].out = Some(r.out)]
               /\ UNCHANGED <<jobs, hist>>
  /\ UNCHANGED <<records, price_estimates, crashes, http>>

RunEstimator(s, env) ==
  /\ CallEstimator(s, env)
  /\ UNCHANGED <<estIn, estRes>>

\* worker.js 46-51: the row the handler inserts
SnapshotRow(recordId, out) ==
  [record_id       |-> recordId,
   source          |-> out.source,
   lowest_price    |-> out.lowest_price,
   median_price    |-> out.median_price,
   estimated_price |-> out.estimated_price,
   extras          |-> out.extras]

\* a handler that keeps one row per record: the new row takes the place
\* of the rows the record has
PersistSnapshotReplaces(s, dbOk) ==
  /\ slots[s].pc = "insert"
  /\ LET j == slots[s].job
     IN IF dbOk
          THEN /\ price_estimates' =
                    Append(SelectSeq(price_estimates,
                                     LAMBDA r : r.record_id /= jobs[j].data),
                           SnapshotRow(jobs[j].data, slots[s].out[1]))
               /\ slots' = [slots EXCEPT ![s].pc = "return"]
               /\ hist' = [hist EXCEPT ![j].inserts = @ + 1]
               /\ UNCHANGED jobs
          ELSE /\ HandlerThrows(s)
               /\ UNCHANGED price_estimates
  /\ UNCHANGED <<records, crashes, estIn, estRes, http>>

\* worker.js 46-51: insert the snapshot; throw when the query fails
PersistSnapshot(s, dbOk) ==
  /\ slots[s].pc = "insert"
  /\ LET j == slots[s].job
     IN IF dbOk
          THEN /\ price_estimates' =
                    Append(price_estimates,
                           SnapshotRow(jobs[j].data, slots[s].out[1]))
               /\ slots' = [slots EXCEPT ![s].pc = "return"]
               /\ hist' = [hist EXCEPT ![j].inserts = @ + 1]
               /\ UNCHANGED jobs
          ELSE /\ HandlerThrows(s)
               /\ UNCHANGED price_estimates
  /\ UNCHANGED <<records, crashes, estIn, estRes, http>>

\* worker.js 53: return { recordId, done: true, est }
Return(s) ==
  /\ slots[s].pc = "return"
  /\ HandlerReturns(s)
  /\ UNCHANGED <<records, price_estimates, crashes, estIn, estRes, http>>

\* the worker process dies while jobs run: its executors and their
\* handler state are gone, the jobs were neither acked nor failed
WorkerCrash ==
  /\ crashes < MaxCrashes
  /\ FreeSlots /= Slots
  /\ slots' = [s \in Slots |-> Idle]
  /\ crashes' = crashes + 1
  /\ UNCHANGED <<records, price_estimates, jobs, hist, estIn, estRes, http>>

\* redelivery: an active job that no executor holds returns to pending
Redeliver(j) ==
  /\ j \in DOMAIN jobs
  /\ jobs[j].state = "active"
  /\ Holders(j) = {}
  /\ jobs' = [jobs EXCEPT ![j].state = "pending"]
  /\ UNCHANGED <<records, price_estimates, slots, crashes, hist, estIn, estRes, http>>

\* the jobs that wait for their nextEligibleTime
Delayed == {j \in DOMAIN jobs : jobs[j].state = "pending-retry" /\ jobs[j].delay > 0}

\* time passes, by the base delay, while jobs wait for their retry
Tick ==
  /\ Delayed /= {}
  /\ jobs' = [j \in DOMAIN jobs |->
                IF j \in Delayed
                  THEN [jobs[j] EXCEPT !.delay = @ - backoff.delay]
                  ELSE jobs[j]]
  /\ hist' = [j \in DOMAIN hist |->
                IF j \in Delayed
                  THEN [hist[j] EXCEPT !.waited = @ + backoff.delay]
                  ELSE hist[j]]
  /\ UNCHANGED <<records, price_estimates, slots, crashes, estIn, estRes, http>>

\* the backoff delay of a failed job has elapsed: now has reached its
\* nextEligibleTime
BackoffElapsed(j) ==
  /\ j \in DOMAIN jobs
  /\ jobs[j].state = "pending-retry"
  /\ jobs[j].delay = 0
  /\ jobs' = [jobs EXCEPT ![j].state = "pending"]
  /\ UNCHANGED <<records, price_estimates, slots, crashes, hist, estIn, estRes, http>>

Init ==
  /\ records = <<>>
  /\ price_estimates = <<>>
  /\ jobs = <<>>
  /\ slots = [s \in Slots |-> Idle]
  /\ crashes = 0
  /\ hist = <<>>
  /\ estIn = null
  /\ estRes = null
  /\ http = null

\* the handler of executor s resumes
HandlerStep(s) ==
  \/ HandleOther(s)
  \/ \E dbOk \in BOOLEAN : LoadRecord(s, dbOk)
  \/ \E env \in WorkerEnvs : RunEstimator(s, env)
  \/ \E dbOk \in BOOLEAN : PersistSnapshot(s, dbOk)
  \/ Return(s)

\* the queue moves job j
QueueStep(j) == Dispatch(j) \/ Redeliver(j) \/ BackoffElapsed(j)

Next ==
  \/ \E m \in RecordMetas : CreateRecord(m)
  \/ \E p \in ProducerJobs : Produce(p[1], p[2])
  \/ \E j \in JobIds : QueueStep(j)
  \/ \E s \in Slots : HandlerStep(s)
  \/ WorkerCrash
  \/ Tick

Spec == Init /\ [][Next]_vars

\* the event loop keeps resuming handlers whose awaited call has settled,
\* the queue keeps dispatching, redelivering and releasing due jobs, and
\* time goes on
FairSpec ==
  /\ Spec
  /\ WF_vars(Tick)
  /\ WF_vars(\E j \in JobIds : QueueStep(j))
  /\ WF_vars(\E s \in Slots : HandlerStep(s))

----------------------------------------------------------------------------
(* the server's endpoint beside the Worker that takes up its jobs *)

\* the ids of the requests: one or two of the characters - 0 1 a
ApiChars == {"-", "0", "1", "a"}

ApiParams ==
  {<<c>> : c \in ApiChars} \cup {<<c, d>> : c \in ApiChars, d \in ApiChars}

\* requests to the two endpoints, and the Worker running the jobs they
\* enqueued, with their retries
NextApi ==
  \/ \E m \in RecordMetas : CreateRecord(m)
  \/ \E p \in ApiParams, dbOk \in BOOLEAN, qOk \in BOOLEAN :
       PostEstimate(p, dbOk, qOk)
  \/ \E j \in JobIds : Dispatch(j) \/ BackoffElapsed(j)
  \/ Tick
  \/ \E s \in Slots, dbOk \in BOOLEAN : LoadRecord(s, dbOk)
  \/ \E s \in Slots, env \in WorkerEnvs : RunEstimator(s, env)
  \/ \E s \in Slots, dbOk \in BOOLEAN : PersistSnapshot(s, dbOk)
  \/ \E s \in Slots : Return(s)

SpecApi == Init /\ [][NextApi]_vars

----------------------------------------------------------------------------
(* the Worker with more jobs waiting than it has executors *)

\* PoolJobs jobs are pending for an existing record: estimate jobs that
\* have failed 4 times and waited out their backoff, and jobs of another
\* kind; the Worker takes them up
InitPool ==
  \E m \in RecordMetas, kind \in [1..PoolJobs -> {"estimate", "other"}] :
    /\ records = <<m>>
    /\ price_estimates = <<>>
    /\ jobs = [j \in 1..PoolJobs |->
                 [name |-> kind[j], data |-> 1, state |-> "pending",
                  attempt |-> IF kind[j] = "estimate" THEN attempts - 1 ELSE 0,
                  maxAttempts |-> attempts, delay |-> 0]]
    /\ slots = [s \in Slots |-> Idle]
    /\ crashes = 0
    /\ hist = [j \in 1..PoolJobs |->
                 IF kind[j] = "estimate"
                   THEN [failures |-> attempts - 1, retries |-> attempts - 1,
                         inserts |-> 0, waited |-> backoffDelay(attempts - 1)]
                   ELSE NoHistory]
    /\ estIn = null
    /\ estRes = null
    /\ http = null

NextPool ==
  \/ \E j \in 1..PoolJobs : Dispatch(j)
  \/ \E s \in Slots : HandlerStep(s)

SpecPool == InitPool /\ [][NextPool]_vars

----------------------------------------------------------------------------
(* one attempt of an estimate job, the services answering in every way *)

NullableStr(S) == {null} \cup {Some(x) : x \in S}

\* catno and barcode: neither, the one or the other
EstIdentifiers == {<<null, null>>, <<Some("C"), null>>, <<Some(""), Some("B")>>}

EstMetas ==
  {Meta(a, t, Some("L"), i[1], i[2]) :
     a \in NullableStr({"", "A"}), t \in NullableStr({"T"}),
     i \in EstIdentifiers}

EstNormResponses ==
  {NormResponse(k, null, null) :
     k \in {"reject", "status", "badjson", "badcontent"}}
  \cup {NormResponse("parsed", a, t) :
          a \in NullableStr({"", "N"}), t \in NullableStr({"M"})}

EstResults ==
  {<<>>,
   <<Candidate(Some(7), "master", "W")>>,
   <<Candidate(Some(7), "master", "W"), Candidate(Some(42), "release", "X"),
     Candidate(Some(43), "release", "Z")>>,
   <<Candidate(null, "release", "Y")>>}

EstSearchResponses ==
  {SearchResponse(k, <<>>, null) : k \in {"reject", "status", "badjson"}}
  \cup {SearchResponse("ok", r, Some(3)) : r \in EstResults}
  \cup {SearchResponse("ok", <<>>, n) : n \in {null, Some(0)}}

EstPrices == {null} \cup {Some(p) : p \in (0..MaxPrice) \cup {1000}}

EstCounts == {null, Some(5), Some(6), Some(8)}

EstStatsResponses ==
  {StatsResponse(k, null, null) : k \in {"reject", "status", "badjson"}}
  \cup {StatsResponse("ok", p, n) : p \in EstPrices, n \in EstCounts}

EstEnvs ==
  {Env(FALSE, NormResponse("status", null, null), s, st, fp) :
     s \in EstSearchResponses, st \in EstStatsResponses, fp \in BOOLEAN}
  \cup {Env(TRUE, n, s, st, fp) :
          n \in EstNormResponses, s \in EstSearchResponses,
          st \in EstStatsResponses, fp \in BOOLEAN}

\* executor 1 has loaded the record of job 1, an estimate job on its first
\* or its last attempt, and is about to call estimateFromMetadata
InitEst ==
  \E m \in EstMetas, e \in EstEnvs, a \in {0, attempts - 1} :
    /\ records = <<m>>
    /\ price_estimates = <<>>
    /\ jobs = <<[name |-> "estimate", data |-> 1, state |-> "active",
                 attempt |-> a, maxAttempts |-> attempts, delay |-> 0]>>
    /\ slots = [s \in Slots |->
                  IF s = 1 THEN [job |-> 1, pc |-> "estimate",
                                 meta |-> Some(m), out |-> null]
                  ELSE Idle]
    /\ crashes = 0
    /\ hist = <<[failures |-> a, retries |-> a, inserts |-> 0,
                 waited |-> IF a = 0 THEN 0 ELSE backoffDelay(a)]>>
    /\ estIn = Some([meta |-> m, env |-> e, attempt |-> a])
    /\ estRes = null
    /\ http = null

\* worker.js 43 with the call observed: estRes is what it did
EstCall ==
  /\ estRes = null
  /\ CallEstimator(1, estIn[1].env)
  /\ estRes' = Some(estimateFromMetadata(estIn[1].meta, estIn[1].env))
  /\ UNCHANGED estIn

NextEst ==
  \/ EstCall
  \/ \E dbOk \in BOOLEAN : PersistSnapshot(1, dbOk)
  \/ Return(1)

SpecEst == InitEst /\ [][NextEst]_vars

----------------------------------------------------------------------------
(* properties of the job lifecycle *)

\* C1  Retry exhaustion: a job whose handler fails on every attempt goes
\* to pending-retry after each of its first 4 failures, is exhausted by
\* the 5th and by nothing else, and once exhausted it stays exhausted and
\* no executor runs it again.
RetryExhaustion ==
  /\ [](\A j \in DOMAIN jobs :
          /\ hist[j].failures <= 5
          /\ hist[j].retries =
               (IF hist[j].failures < 5 THEN hist[j].failures ELSE 4)
          /\ (jobs[j].state = "exhausted") <=> (hist[j].failures = 5)
          /\ (jobs[j].state = "exhausted") => (Holders(j) = {}))
  /\ [][\A j \in DOMAIN jobs :
          (jobs[j].state = "exhausted") =>
            /\ jobs'[j].state = "exhausted"
            /\ \A s \in Slots : slots'[s].job /= j]_vars

\* a job is exhausted after 5 failed attempts and 4 retries
RetryExhaustionWitness ==
  \E j \in DOMAIN jobs :
    /\ jobs[j].state = "exhausted"
    /\ hist[j].failures = 5
    /\ hist[j].retries = 4

\* C2  Never concurrent-duplicate: no job is run by two executors at the
\* same time, worker crashes and redelivery included, and a job an executor
\* runs is active.
NeverConcurrentDuplicate ==
  \A j \in DOMAIN jobs :
    /\ Cardinality(Holders(j)) <= 1
    /\ (Holders(j) /= {}) => (jobs[j].state = "active")

\* a job runs again after the worker that held it crashed
NeverConcurrentDuplicateWitness ==
  \E j \in DOMAIN jobs : crashes > 0 /\ Holders(j) /= {}

\* C3  No job lost or stuck: under fair scheduling every enqueued job
\* reaches completed or exhausted, and a job whose worker crashed while it
\* was active returns to pending, from where only a dispatch lets it go on.
NoJobLostOrStuck ==
  \A j \in JobIds :
    /\ (j \in DOMAIN jobs)
         ~> (j \in DOMAIN jobs /\ jobs[j].state \in Terminal)
    /\ (j \in DOMAIN jobs /\ jobs[j].state = "active" /\ Holders(j) = {})
         ~> (j \in DOMAIN jobs /\ jobs[j].state = "pending")

\* a job reached a terminal state although its worker crashed
NoJobLostOrStuckWitness ==
  \E j \in DOMAIN jobs : crashes > 0 /\ jobs[j].state \in Terminal

\* C4  Exhausted job leaves no result: no attempt of a job that ends
\* exhausted has inserted a snapshot row.
ExhaustedLeavesNoResult ==
  \A j \in DOMAIN jobs :
    (jobs[j].state = "exhausted") => (hist[j].inserts = 0)

\* C13  Backoff gate: a job that has failed k times with attempts
\* remaining is pending or runs again only after it has waited
\* 2000 * 2^(k-1) ms since that failure (2000, 4000, 8000, 16000); while
\* it waits, the time waited and the time left add up to that delay, and
\* it leaves pending-retry only for pending and only with no time left.
BackoffGate ==
  /\ [](\A j \in DOMAIN jobs :
          LET k == hist[j].failures
          IN /\ (k >= 1 /\ jobs[j].state \in {"pending", "active"}) =>
                  (hist[j].waited >= 2000 * 2^(k - 1))
             /\ (jobs[j].state = "pending-retry") =>
                  /\ k \in 1..4
                  /\ Holders(j) = {}
                  /\ hist[j].waited + jobs[j].delay = 2000 * 2^(k - 1))
  /\ [][\A j \in DOMAIN jobs :
          (jobs[j].state = "pending-retry") =>
            \/ jobs'[j].state = "pending-retry"
            \/ jobs'[j].state = "pending" /\ jobs[j].delay = 0]_vars

\* a job runs its third attempt, 4000 ms after its second failure
BackoffGateWitness ==
  \E j \in DOMAIN jobs :
    /\ hist[j].failures = 2
    /\ hist[j].waited = 4000
    /\ Holders(j) /= {}

\* C12  Unknown kind is a no-op success: a job whose kind is not
\* 'estimate' never fails, is never retried or exhausted and inserts
\* nothing; the executor that runs it looks up no record and calls no
\* service, and its next step completes the job and leaves both tables as
\* they are, unless the worker crashes first.
UnknownKindNoOp ==
  /\ [](\A j \in DOMAIN jobs :
          (jobs[j].name /= "estimate") =>
            /\ jobs[j].attempt = 0
            /\ hist[j].failures = 0
            /\ hist[j].inserts = 0
            /\ jobs[j].state \in {"pending", "active", "completed"}
            /\ \A s \in Holders(j) :
                 slots[s] = [job |-> j, pc |-> "start",
                             meta |-> null, out |-> null])
  /\ [][\A s \in Slots :
          (/\ slots[s].job /= 0
           /\ jobs[slots[s].job].name /= "estimate"
           /\ slots'[s] /= slots[s]) =>
            \/ crashes' = crashes + 1
            \/ /\ jobs'[slots[s].job].state = "completed"
               /\ slots'[s] = Idle
               /\ records' = records
               /\ price_estimates' = price_estimates]_vars

\* a job of another kind is completed without a failure
UnknownKindNoOpWitness ==
  \E j \in DOMAIN jobs :
    /\ jobs[j].name = "other"
    /\ jobs[j].state = "completed"
    /\ jobs[j].attempt = 0
    /\ price_estimates = <<>>

\* the record of estimate job j does not exist
RecordMissing(j) ==
  jobs[j].name = "estimate" /\ jobs[j].data \notin DOMAIN records

\* C14  Record-not-found follows the generic retry policy: while the
\* record of an estimate job is missing, each attempt fails at the lookup,
\* before any estimator call and any insert, and counts like any other
\* failure: the job is retried after each of its first 4 failures and
\* exhausted by the 5th, never earlier.
RecordNotFoundRetries ==
  /\ [](\A j \in DOMAIN jobs :
          RecordMissing(j) =>
            /\ hist[j].inserts = 0
            /\ \A s \in Holders(j) :
                 slots[s] = [job |-> j, pc |-> "start",
                             meta |-> null, out |-> null]
            /\ jobs[j].attempt = hist[j].failures
            /\ jobs[j].state /= "completed"
            /\ (jobs[j].state = "exhausted") <=> (hist[j].failures = 5)
            /\ (jobs[j].state = "pending-retry") => (hist[j].failures \in 1..4))
  /\ [][\A s \in Slots :
          (/\ slots[s].job /= 0
           /\ RecordMissing(slots[s].job)
           /\ records' = records
           /\ slots'[s] /= slots[s]) =>
            \/ crashes' = crashes + 1
            \/ LET j == slots[s].job
               IN /\ hist'[j].failures = hist[j].failures + 1
                  /\ jobs'[j].state = (IF hist[j].failures + 1 < 5
                                         THEN "pending-retry" ELSE "exhausted")
                  /\ slots'[s] = Idle
                  /\ price_estimates' = price_estimates]_vars

\* a job for a record that never existed is exhausted by its 5th failure
RecordNotFoundRetriesWitness ==
  \E j \in DOMAIN jobs :
    /\ RecordMissing(j)
    /\ records = <<>>
    /\ jobs[j].state = "exhausted"
    /\ hist[j].failures = 5
    /\ hist[j].retries = 4

\* the executors that run a job, and those inside estimateFromMetadata
Busy == {s \in Slots : slots[s].job /= 0}

Estimating == {s \in Slots : slots[s].pc = "estimate"}

\* C17  Slot bound: at most 3 jobs are active and run in the Worker at any
\* time, each in one executor of its own, so at most 3 estimator calls,
\* and with them at most 3 requests to the pricing service, are in flight.
SlotBound ==
  /\ Cardinality(Busy) <= 3
  /\ Cardinality({j \in DOMAIN jobs : jobs[j].state = "active"}) <= 3
  /\ Cardinality(Estimating) <= 3
  /\ \A j \in DOMAIN jobs :
       /\ Cardinality(Holders(j)) <= 1
       /\ (jobs[j].state = "active") <=> (Holders(j) /= {})
  /\ \A s \in Busy : slots[s].job \in DOMAIN jobs

\* three estimator calls are in flight and a fourth estimate job waits
SlotBoundWitness ==
  /\ Cardinality(Estimating) = 3
  /\ \E j \in DOMAIN jobs :
       jobs[j].name = "estimate" /\ jobs[j].state = "pending"

\* the attempts of jobs 1..n that reached the insert
RECURSIVE InsertsUpTo(_)
InsertsUpTo(n) == IF n = 0 THEN 0 ELSE hist[n].inserts + InsertsUpTo(n - 1)

\* C19  Append-only snapshots: the table changes only by one row appended
\* at the insert of an attempt, for the record of its job and with the
\* result of its estimator call; an attempt that fails has inserted
\* nothing and an attempt that succeeds has inserted its row before it
\* returns; there are as many rows as attempts that reached the insert.
AppendOnlySnapshots ==
  /\ [](/\ Len(price_estimates) = InsertsUpTo(Len(hist))
        /\ \A j \in DOMAIN jobs :
             (jobs[j].name = "estimate" /\ jobs[j].state = "completed") =>
               (hist[j].inserts >= 1)
        /\ \A s \in Slots :
             (slots[s].pc = "return") =>
               \E i \in DOMAIN price_estimates :
                 price_estimates[i] =
                   SnapshotRow(jobs[slots[s].job].data, slots[s].out[1]))
  /\ [][\/ price_estimates' = price_estimates
        \/ \E s \in Slots :
             /\ slots[s].pc = "insert"
             /\ slots'[s].pc = "return"
             /\ price_estimates' =
                  Append(price_estimates,
                         SnapshotRow(jobs[slots[s].job].data,
                                     slots[s].out[1]))]_vars
  /\ [][\A s \in Slots :
          /\ (slots'[s].pc = "return" /\ slots[s].pc /= "return") =>
               (Len(price_estimates') = Len(price_estimates) + 1)
          /\ (/\ slots[s].job /= 0
              /\ hist'[slots[s].job].failures > hist[slots[s].job].failures) =>
               /\ slots[s].pc \in {"start", "estimate", "insert"}
               /\ price_estimates' = price_estimates
          /\ (/\ slots[s].job /= 0
              /\ jobs[slots[s].job].name = "estimate"
              /\ jobs'[slots[s].job].state = "completed") =>
               /\ slots[s].pc = "return"
               /\ price_estimates' = price_estimates]_vars

\* a record has two rows: one of an attempt the worker crashed in after
\* the insert, one of the attempt that completed the job
AppendOnlySnapshotsWitness ==
  /\ Len(price_estimates) = 2
  /\ price_estimates[1].record_id = price_estimates[2].record_id
  /\ \E j \in DOMAIN jobs :
       jobs[j].state = "completed" /\ hist[j].inserts = 2

\* C20  Enqueue endpoint guard: a request whose id is not a finite
\* positive number is answered 400; otherwise a failing select 500, a
\* missing record 404, a failing enqueue 500, and in these cases the queue
\* is left as it is; otherwise one pending job of kind 'estimate' for that
\* record is added and its id answered with 200.  The request touches
\* neither the tables nor the Worker.
EnqueueGuard ==
  [][http' /= http =>
       LET r == http'[1]
           bad == r.id = null \/ r.id[1] <= 0
       IN /\ r.status =
               (IF bad THEN 400
                ELSE IF r.error = "db" THEN 500
                ELSE IF r.id[1] \notin DOMAIN records THEN 404
                ELSE IF r.error = "queue" THEN 500
                ELSE 200)
          /\ bad => (r.error = "none")
          /\ (r.status /= 200) => (jobs' = jobs /\ r.jobId = null)
          /\ (r.status = 200) =>
               /\ jobs' = Append(jobs, [name |-> "estimate", data |-> r.id[1],
                                        state |-> "pending", attempt |-> 0,
                                        maxAttempts |-> 5, delay |-> 0])
               /\ r.jobId = Some(Len(jobs'))
          /\ records' = records
          /\ price_estimates' = price_estimates
          /\ slots' = slots]_vars

\* a request for a record that does not exist yet is answered 404 and
\* the queue stays empty
EnqueueGuardWitness ==
  /\ http /= null
  /\ http[1].id = Some(1)
  /\ http[1].status = 404
  /\ records = <<>>
  /\ jobs = <<>>

----------------------------------------------------------------------------
(* properties of one estimator call (SpecEst) *)

\* the call has been made
Called == estRes /= null

\* what the call was given and what it did
In == estIn[1]

Res == estRes[1]

\* the steps of kind e the call took
Took(e) == {i \in DOMAIN Res.trace : Res.trace[i] = e}

\* the normalizer is unconfigured or its request fails in some way
NormalizerDown ==
  \/ ~In.env.key
  \/ In.env.norm.kind \in {"reject", "status", "badjson", "badcontent"}

\* C5  Normalizer fallback: when the normalizer is unconfigured or fails
\* in any way, the call goes on and hands the original metadata to the
\* search.
NormalizerFallback ==
  (Called /\ NormalizerDown) =>
    /\ ~(Res.threw /\ Res.error = "normalize")
    /\ Res.clean = Some(In.meta)

\* the call came to the stats step: a candidate was selected
StatsStep == Cardinality(Took("sleep")) = 2

\* the candidate the call selected
Selected == PickFirst(In.env.search.results)[1]

\* C6  Stats failure degrades: when the stats request fails (network error
\* or non-2xx) or the candidate has no identifier, the call returns a result
\* with lowest_price and estimated_price null.
StatsFailureDegrades ==
  (/\ Called
   /\ StatsStep
   /\ \/ In.env.stats.kind \in {"reject", "status"}
      \/ Selected.id = null) =>
    /\ ~Res.threw
    /\ Res.out.lowest_price = null
    /\ Res.out.estimated_price = null

\* the search request was sent and failed: network error or non-2xx
SearchFailed ==
  /\ Took("search") /= {}
  /\ In.env.search.kind \in {"reject", "status"}

\* C7  Search failure is fatal to the attempt: the call throws without a
\* stats request, the attempt counts against the 5 attempts, nothing is
\* inserted, and the job is retried, or exhausted when it was the 5th.
SearchFailureFatal ==
  (Called /\ SearchFailed) =>
    /\ Res.threw
    /\ Res.error = "search"
    /\ Took("stats") = {}
    /\ price_estimates = <<>>
    /\ Holders(1) = {}
    /\ jobs[1].attempt = In.attempt + 1
    /\ jobs[1].state =
         (IF In.attempt + 1 < 5 THEN "pending-retry" ELSE "exhausted")

\* the search fails on a last attempt and the job is exhausted
SearchFailureFatalWitness ==
  /\ Called
  /\ SearchFailed
  /\ In.attempt = 4
  /\ jobs[1].state = "exhausted"

\* the active-listing count the stats answered, 0 when absent
Listings ==
  IF In.env.stats.num_for_sale = null THEN 0 ELSE In.env.stats.num_for_sale[1]

\* C8  Price uplift rule: with a lowest price, estimated_price is
\* lowest * 1.3 rounded to the cent when there are more than 5 listings
\* (10.00 gives 13.00) and lowest unchanged otherwise.
PriceUplift ==
  (Called /\ ~Res.threw /\ Res.out.lowest_price /= null) =>
    LET l == Res.out.lowest_price[1]
        e == Res.out.estimated_price
    IN /\ e /= null
       /\ l = In.env.stats.lowest_price[1]
       /\ (Listings > 5) => /\ 13 * l - 10 * e[1] \in -5..5
                            /\ (l = 1000) => (e[1] = 1300)
       /\ (Listings <= 5) => (e[1] = l)

\* lowest 10.00 with 8 listings gave 13.00
PriceUpliftWitness ==
  /\ Called
  /\ ~Res.threw
  /\ Listings = 8
  /\ Res.out.lowest_price = Some(1000)
  /\ Res.out.estimated_price = Some(1300)

\* C9  Null propagation: every result the call returns, and every
\* snapshot row inserted from it, has median_price null, and
\* estimated_price null whenever lowest_price is null.
NullPropagation ==
  /\ (Called /\ ~Res.threw) =>
       /\ Res.out.median_price = null
       /\ (Res.out.lowest_price = null) => (Res.out.estimated_price = null)
  /\ \A i \in DOMAIN price_estimates :
       /\ price_estimates[i].median_price = null
       /\ (price_estimates[i].lowest_price = null)
            => (price_estimates[i].estimated_price = null)

\* a row without prices is inserted although the stats report 8 listings
NullPropagationWitness ==
  /\ Called
  /\ Took("stats") /= {}
  /\ In.env.stats.kind = "ok"
  /\ Listings = 8
  /\ price_estimates /= <<>>
  /\ price_estimates[1].lowest_price = null

\* the search gave an empty candidate list, skipped or answered
EmptySearch ==
  /\ Res.clean /= null
  /\ \/ ~discogsSearchCalls(Res.clean[1])
     \/ In.env.search.kind = "ok" /\ In.env.search.results = <<>>

\* the total count the search reported, 0 when it reported none
ReportedCount ==
  IF discogsSearchCalls(Res.clean[1]) /\ In.env.search.items /= null
    THEN In.env.search.items[1] ELSE 0

\* C10  No-candidate path: on an empty candidate list the call returns
\* without a stats request, with the three prices null, extras.note
\* "no results", the normalized query and the reported total count.
NoCandidatePath ==
  (Called /\ EmptySearch) =>
    /\ ~Res.threw
    /\ Took("stats") = {}
    /\ Cardinality(Took("sleep")) = 1
    /\ Res.out.lowest_price = null
    /\ Res.out.median_price = null
    /\ Res.out.estimated_price = null
    /\ Res.out.extras.note = "no results"
    /\ Res.out.extras.query = Res.clean[1]
    /\ Res.out.extras.search_count = ReportedCount

\* an answered search without candidates that reports 3 matches
NoCandidatePathWitness ==
  /\ Called
  /\ EmptySearch
  /\ Took("search") /= {}
  /\ Res.out.extras.search_count = 3

\* none of the four search fields of the normalized metadata is non-empty
NoSearchField ==
  /\ Res.clean /= null
  /\ \A k \in {"artist", "title", "catno", "barcode"} :
       Res.clean[1][k] = null \/ Res.clean[1][k] = Some("")

\* C11  No unconstrained search: when artist, title, catno and barcode of
\* the normalized metadata are all empty, whatever the label, no search
\* request is sent and the call returns the no-results outcome with a
\* count of 0 instead of throwing.
NoUnconstrainedSearch ==
  (Called /\ NoSearchField) =>
    /\ Took("search") = {}
    /\ Took("stats") = {}
    /\ ~Res.threw
    /\ Res.out.lowest_price = null
    /\ Res.out.estimated_price = null
    /\ Res.out.extras.note = "no results"
    /\ Res.out.extras.search_count = 0
    /\ slots[1].pc /= "estimate"

\* a record with only a label set went through without a search although
\* the search service would have answered with candidates
NoUnconstrainedSearchWitness ==
  /\ Called
  /\ NoSearchField
  /\ Res.clean[1].label = Some("L")
  /\ In.env.search.kind = "ok"
  /\ In.env.search.results /= <<>>
  /\ price_estimates /= <<>>

\* the normalizer answered with a non-empty value for field k
Rewritten(k) ==
  /\ In.env.key
  /\ In.env.norm.kind = "parsed"
  /\ In.env.norm[k] /= null
  /\ In.env.norm[k] /= Some("")

\* C15  Normalizer preserves identifiers: the metadata handed to the
\* search has the label, catno and barcode of the input; artist and title
\* are the normalizer's values where it returned non-empty ones and the
\* input's otherwise.
NormalizerPreservesIdentifiers ==
  (Called /\ Res.clean /= null) =>
    LET c == Res.clean[1]
    IN /\ c.label = In.meta.label
       /\ c.catno = In.meta.catno
       /\ c.barcode = In.meta.barcode
       /\ \A k \in {"artist", "title"} :
            c[k] = (IF Rewritten(k) THEN In.env.norm[k] ELSE In.meta[k])

\* the normalizer rewrote the artist and returned no title for a
\* record with a label and a catno
NormalizerPreservesIdentifiersWitness ==
  /\ Called
  /\ Rewritten("artist")
  /\ In.env.norm.title = null
  /\ In.meta.title = Some("T")
  /\ Res.clean = Some(Meta(Some("N"), Some("T"), Some("L"), Some("C"), null))

\* the search was sent and answered with a non-empty candidate list
Candidates ==
  /\ Took("search") /= {}
  /\ In.env.search.kind = "ok"
  /\ In.env.search.results /= <<>>

\* C16  Candidate selection: of a non-empty result list the call selects
\* the first entry of type 'release', or the first entry when there is no
\* release; the stats are asked for that entry's id, with a request when
\* the id is set, and the extras of the result carry its id and title.
CandidateSelection ==
  (Called /\ Candidates) =>
    LET r == In.env.search.results
        rel == {i \in DOMAIN r : r[i].type = "release"}
    IN \E i \in DOMAIN r :
         /\ IF rel = {} THEN i = 1
              ELSE i \in rel /\ \A k \in 1..(i - 1) : k \notin rel
         /\ Res.asked = Some(r[i].id)
         /\ (Took("stats") /= {}) <=> (r[i].id /= null)
         /\ Cardinality(Took("stats")) <= 1
         /\ ~Res.threw =>
              /\ Res.out.extras.release_id = r[i].id
              /\ Res.out.extras.title = r[i].title

\* the first of two releases was selected although a master comes first
CandidateSelectionWitness ==
  /\ Called
  /\ Candidates
  /\ Len(In.env.search.results) = 3
  /\ In.env.search.results[1].type = "master"
  /\ Res.asked = Some(Some(42))
  /\ ~Res.threw
  /\ Res.out.extras.title = "X"

\* C18  Step ordering within one attempt: the record is looked up before
\* the estimator is called; the call takes its external steps in the order
\* normalize, pause, search, pause, stats, each at most once and each
\* request to the pricing service right after a pause; the insert follows
\* a call that returned, carries its result and precedes the return of the
\* handler.
StepOrdering ==
  /\ [](/\ In.meta = records[1]
        /\ (slots[1].pc = "estimate") =>
             (~Called /\ slots[1].meta = Some(In.meta))
        /\ ~Called => (price_estimates = <<>>)
        /\ (slots[1].pc \in {"insert", "return"} \/ price_estimates /= <<>>) =>
             /\ Called
             /\ ~Res.threw
             /\ slots[1].pc = "insert" => slots[1].out = Some(Res.out)
             /\ slots[1].pc = "insert" <=> price_estimates = <<>>
             /\ price_estimates \in {<<>>, <<SnapshotRow(1, Res.out)>>}
        /\ Called =>
             LET t == Res.trace
             IN /\ \A i \in DOMAIN t :
                     (t[i] \in {"search", "stats"}) =>
                       (i > 1 /\ t[i - 1] = "sleep")
                /\ \A e \in {"normalize", "search", "stats"} :
                     Cardinality(Took(e)) <= 1
                /\ Took("normalize") \subseteq {1}
                /\ \A i \in Took("search"), k \in Took("stats") : i < k
                /\ Cardinality(Took("sleep")) <= 2
                /\ (Res.clean /= null) => (Took("sleep") /= {})
                /\ (Took("stats") /= {}) => (Took("search") /= {})
                /\ (Took("search") = {} /\ ~Res.threw) =>
                     (Cardinality(Took("sleep")) = 1))
  /\ [][slots'[1].pc /= slots[1].pc =>
          \/ /\ slots[1].pc = "estimate"
             /\ slots'[1].pc = (IF estRes'[1].threw THEN "idle" ELSE "insert")
          \/ /\ slots[1].pc = "insert"
             /\ \/ slots'[1].pc = "return" /\ Len(price_estimates') = 1
                \/ slots'[1].pc = "idle" /\ price_estimates' = <<>>
          \/ /\ slots[1].pc = "return"
             /\ slots'[1].pc = "idle"
             /\ price_estimates' = price_estimates]_vars

\* an attempt took every step and inserted its result
StepOrderingWitness ==
  /\ Called
  /\ Res.trace = <<"normalize", "sleep", "search", "sleep", "stats">>
  /\ slots[1].pc = "return"
  /\ price_estimates = <<SnapshotRow(1, Res.out)>>

====
